---- MODULE Spec2Model ----
(***************************************************************************)
(* Model of the telemetrics data pipeline (backend/scripts):               *)
(*   FastF1Extractor.load_session and its accessors (fastf1_extractor.py), *)
(*   F1DataPipeline.process_session / run      (main_pipeline.py),         *)
(*   SupabaseUploader.upload_session / upload_data (supabase_uploader.py), *)
(*   DataTransformer's standings transforms    (data_transformers.py).     *)
(* Four specifications share the variables:                                *)
(*   Spec          - one run() of the pipeline over its session matrix;    *)
(*   SpecExtractor - one extractor instance driven by an arbitrary client; *)
(*   SpecTwice     - process_session called twice for the same session;    *)
(*   SpecStandings - one call of get_driver_standings or of a transform.   *)
(***************************************************************************)
EXTENDS Integers, Sequences, FiniteSets, TLC

(* ------------------------------ bounds --------------------------------- *)
\* events a season's schedule may list (get_events_for_year)
MaxEvents == 1
\* events the schedules of all seasons of one run list together
MaxSessions == 2
\* failures over one run, load failures apart: transforms that raise on
\* malformed input, upserts the store rejects, backup write errors and
\* exceptions that reach process_session's handler
MaxFailures == 1
\* largest max_retries a client of the extractor passes to load_session
MaxRetriesArg == 3
\* load_session calls a client makes on one extractor instance
MaxLoadCalls == 2
\* accessor calls a client makes on one extractor instance
MaxAccessorCalls == 2
\* rows of a session's results table (drivers)
MaxDrivers == 3
\* best lap times, in ticks, the drivers of a practice or qualifying set
MaxLapTime == 3
\* laps of the longest race
MaxLapNumber == 2
\* distance units, and telemetry points, of a minisector
MaxSectorLength == 1

(* ------------------------- program constants --------------------------- *)
\* default of load_session's max_retries parameter
DefaultMaxRetries == 3
\* first season with telemetry (process_session's pre-2018 warning)
FirstTelemetryYear == 2018

\* self.session = None: no provider session object is held
None == 0

\* the keys of all_data in the order process_session inserts them
TransformOrder ==
    << "session_results", "podium", "fastest_lap", "get_session_data",
       "track_dominance", "tyres", "lap_chart_data" >>

DataTypes == { TransformOrder[i] : i \in 1..Len(TransformOrder) }

\* the arguments of run() in the checked runs: two seasons, one before
\* the telemetry era, for their races; one season's sprint qualifyings
RunChoices ==
    { [ years |-> << 2017, 2024 >>, specific_session |-> "Race" ],
      [ years |-> << 2024 >>, specific_session |-> "Sprint Qualifying" ] }

AllYears == { 2017, 2024 }
SessionChoices == { c.specific_session : c \in RunChoices }

(* ------------------------------ payloads ------------------------------- *)
\* A payload is a JSON value abstracted to its Python type (kind), its
\* len() and whether the data inside is empty, context only, or filled.
Payload(kind, len, content) == [ kind |-> kind, len |-> len, content |-> content ]

PyNone      == Payload("none", 0, "empty")
EmptyList   == Payload("list", 0, "empty")
EmptyDict   == Payload("dict", 0, "empty")
\* a store key that holds no record
NoRecord    == Payload("absent", 0, "absent")
\* a key that a document map does not have
Missing     == Payload("missing", 0, "missing")
\* a good payload left in the store by an earlier run
OldPayload  == Payload("dict", 1, "old")

\* the value process_session puts in all_data when a transform raises
Sentinel(dt) ==
    CASE dt = "session_results"  -> EmptyList
      [] dt = "podium"           -> EmptyList
      [] dt = "fastest_lap"      -> PyNone
      [] dt = "get_session_data" -> EmptyDict
      [] dt = "track_dominance"  -> Payload("dict", 3, "empty")
      [] dt = "tyres"            -> EmptyList
      [] dt = "lap_chart_data"   -> Payload("dict", 2, "empty")

\* an emptiness test that forgets None
is_empty_lists_only(payload) ==
    payload.kind \in {"list", "dict"} /\ payload.len = 0

\* the emptiness test of process_session's upload filter
is_empty(payload) ==
    \/ payload.kind = "none"
    \/ (payload.kind \in {"list", "dict"} /\ payload.len = 0)

(* --------------------------- upstream data ----------------------------- *)
\* What a loaded session holds: results and laps ("full") or results
\* without any lap ("no_laps"), and for which transforms the rows are
\* malformed so that the transform raises.
Shapes == { "full", "no_laps" }

NoUpstream == [ shape |-> "none", broken |-> {} ]

Datasets(budget) ==
    { [ shape |-> s, broken |-> b ] :
        s \in Shapes, b \in { x \in SUBSET DataTypes : Cardinality(x) <= budget } }

\* the value a transform returns on well-formed upstream data
TransformValue(dt, shape) ==
    CASE dt = "session_results" -> Payload("list", 2, "filled")
      [] dt = "podium" -> Payload("list", 2, "filled")
      [] dt = "fastest_lap" ->
            IF shape = "no_laps" THEN PyNone ELSE Payload("dict", 5, "filled")
      [] dt = "get_session_data" -> Payload("dict", 6, "filled")
      [] dt = "track_dominance" ->
            IF shape = "no_laps" THEN Payload("dict", 3, "context")
            ELSE Payload("dict", 3, "filled")
      [] dt = "tyres" ->
            IF shape = "no_laps" THEN EmptyList ELSE Payload("list", 2, "filled")
      [] dt = "lap_chart_data" ->
            IF shape = "full" THEN Payload("dict", 2, "filled")
            ELSE Payload("dict", 2, "context")

\* TRUE when the transform raises on this upstream data
TransformRaises(dt, up) == dt \in up.broken

(* ------------------------------- state --------------------------------- *)
VARIABLES
    \* FastF1Extractor instance
    session,        \* self.session: None, or the provider session object held,
                    \* named by the load_session call that created it
    loaded,         \* whether that provider object's load() has completed
    upstream,       \* the data the loaded session holds
    \* the running load_session call
    lpc,            \* "idle", "attempt", "sleep", "returned"
    max_retries,    \* its argument
    attempt,        \* its loop variable
    load_result,    \* its return value: "None", "True" or "False"
    attempts_made,  \* load attempts made by the call
    sleeps,         \* time.sleep calls made by the call
    \* history of the extractor instance
    load_calls,     \* load_session calls made on it
    ever_failed,    \* some load_session call on it returned False
    first_loaded,   \* the handle held when load_session first returned True
    acc,            \* the last accessor call and its outcome
    acc_calls,      \* accessor calls made on it
    \* F1DataPipeline
    pc,             \* position in run() / process_session
    stats,          \* self.stats
    store,          \* the telemetry_data table, by composite key
    years,          \* run()'s arguments
    specific_session,
    yearIdx,        \* position of run()'s year loop
    events,         \* events of the current year
    gpIdx,          \* position of run()'s grand_prix loop
    all_data,       \* process_session's document map
    tIdx,           \* next transform to invoke
    raised,         \* data types whose transform raised in this call
    backup,         \* the document map passed to save_json_backup and the
                    \* one written to the backup file, if any
    filtered_data,  \* keys handed to upload_session, in order
    uploadIdx,      \* next entry of filtered_data to upload
    upload_results, \* upload_session's result map
    upload_called,  \* whether upload_session was called in this call
    ret,            \* process_session's return value, once it returned
    handled,        \* how the call ended: "", "skipped", "ok", "except", "interrupt"
    statsBefore,    \* self.stats when the call was entered
    storeBefore,    \* the table when the call was entered
    printed,        \* whether print_stats ran
    interrupted_at, \* where a KeyboardInterrupt arrived, "" if none did
    failuresLeft,   \* failures that may still happen, see MaxFailures
    prev,           \* the previous process_session call on the same combination,
                    \* when the combination is processed a second time
    \* one call of get_driver_standings or of a transform built on it
    session_type,   \* the extractor's session_type
    session_results,\* session.results: the upstream rows, in table order
    session_laps,   \* session.laps: the upstream lap rows
    laps_position,  \* whether the lap table has a Position column
    telemetry,      \* by driver, what get_telemetry().add_distance() gives for
                    \* the driver's fastest lap
    called,         \* the function that was called, "none" before the call
    standings,      \* what get_driver_standings returned in the call
    output,         \* the list a transform returned
    document        \* the dict a transform returned, or what it raised

extVars  == << session, loaded, upstream, lpc, max_retries, attempt, load_result,
               attempts_made, sleeps, load_calls, ever_failed,
               first_loaded >>
accVars  == << acc, acc_calls >>
runVars  == << years, specific_session, yearIdx, events, gpIdx, printed,
               interrupted_at >>
callVars == << all_data, tIdx, raised, backup, filtered_data, uploadIdx,
               upload_results, upload_called, ret, handled, statsBefore,
               storeBefore >>
fnVars   == << session_type, session_results, session_laps, laps_position,
               telemetry, called, standings, output, document >>
vars     == << extVars, accVars, runVars, callVars, failuresLeft,
               pc, stats, store, prev, fnVars >>


(* ------------------------- FastF1Extractor ----------------------------- *)
\* FastF1Extractor.__init__: a fresh instance holds no session
NewExtractor ==
    /\ session' = None
    /\ loaded' = FALSE
    /\ upstream' = NoUpstream
    /\ lpc' = "idle"
    /\ max_retries' = 0
    /\ attempt' = 0
    /\ load_result' = "None"
    /\ attempts_made' = 0
    /\ sleeps' = 0
    /\ load_calls' = 0
    /\ ever_failed' = FALSE
    /\ first_loaded' = None

\* entry of load_session(max_retries, retry_delay): the loop starts at 0
CallLoadSession(mr) ==
    /\ lpc' = "attempt"
    /\ max_retries' = mr
    /\ attempt' = 0
    /\ load_result' = "None"
    /\ attempts_made' = 0
    /\ sleeps' = 0
    /\ load_calls' = load_calls + 1

\* what one pass of the try block can do: fastf1.get_session raises,
\* get_session returns and session.load() raises, or both succeed
AttemptOutcomes == { "get_session_raises", "load_raises", "ok" }

\* the except branch of load_session: sleep before another attempt, or
\* give up after the last one
RetryOrGiveUp(att, mr) == IF att < mr - 1 THEN "sleep" ELSE "give_up"

\* self.session after one pass of the try block
SessionAfterAttempt(outcome, old, fresh) ==
    IF outcome = "get_session_raises" THEN old ELSE fresh

\* one iteration of `for attempt in range(max_retries)`, or the fall off
\* the end of the loop (an implicit `return None`)
LoadAttempt ==
    /\ lpc = "attempt"
    /\ IF attempt >= max_retries
       THEN /\ lpc' = "returned"
            /\ load_result' = "None"
            /\ UNCHANGED << session, loaded, upstream, attempts_made,
                            ever_failed, first_loaded, failuresLeft >>
       ELSE \E outcome \in AttemptOutcomes :
            /\ attempts_made' = attempts_made + 1
            /\ session' = SessionAfterAttempt(outcome, session, load_calls)
            /\ IF outcome = "ok"
               THEN /\ \E up \in Datasets(failuresLeft) :
                         /\ upstream' = up
                         /\ failuresLeft' = failuresLeft - Cardinality(up.broken)
                    /\ loaded' = TRUE
                    /\ lpc' = "returned"
                    /\ load_result' = "True"
                    /\ first_loaded' = IF first_loaded = None THEN load_calls
                                       ELSE first_loaded
                    /\ UNCHANGED ever_failed
               ELSE /\ loaded' = IF outcome = "load_raises" THEN FALSE ELSE loaded
                    /\ upstream' = IF outcome = "load_raises" THEN NoUpstream ELSE upstream
                    /\ UNCHANGED << first_loaded, failuresLeft >>
                    /\ IF RetryOrGiveUp(attempt, max_retries) = "sleep"
                       THEN /\ lpc' = "sleep"
                            /\ UNCHANGED << load_result, ever_failed >>
                       ELSE /\ lpc' = "returned"
                            /\ load_result' = "False"
                            /\ ever_failed' = TRUE
    /\ UNCHANGED << max_retries, attempt, sleeps, load_calls >>
    /\ UNCHANGED << accVars, prev, fnVars, runVars, callVars, pc, stats, store >>

\* time.sleep(retry_delay), then the next iteration of the loop
LoadSleep ==
    /\ lpc = "sleep"
    /\ sleeps' = sleeps + 1
    /\ attempt' = attempt + 1
    /\ lpc' = "attempt"
    /\ UNCHANGED << session, loaded, upstream, max_retries, load_result,
                    attempts_made, load_calls, ever_failed, first_loaded >>
    /\ UNCHANGED << accVars, prev, fnVars, runVars, callVars, failuresLeft, pc, stats, store >>

\* get_results, get_laps, get_event_info, get_fastest_lap and
\* get_driver_standings all start with the same guard
Accessors == { "get_results", "get_laps", "get_event_info", "get_fastest_lap",
               "get_driver_standings" }

\* an accessor without the guard
SessionGuardRaises_missing(s) == FALSE

\* the guard `if not self.session: raise ValueError("Session not loaded")`
SessionGuardRaises(s) == s = None

\* The outcomes of an accessor.  Past the guard the value comes from the
\* provider's session object: its data when load() completed, and whatever
\* the provider does for an object that was created but never loaded.
AccessorOutcomes(s, isLoaded) ==
    IF SessionGuardRaises(s) THEN { "ValueError: Session not loaded" }
    ELSE IF isLoaded THEN { "data" }
    ELSE { "data", "provider error" }

NoCall == [ op |-> "none", outcome |-> "none", after_failed |-> FALSE,
            loads_before |-> 0 ]

(* ---------------------- a client of one extractor ---------------------- *)
ClientLoadSession ==
    /\ pc = "client"
    /\ lpc \in {"idle", "returned"}
    /\ load_calls < MaxLoadCalls
    /\ \E mr \in 0..MaxRetriesArg : CallLoadSession(mr)
    /\ UNCHANGED << session, loaded, upstream, ever_failed, first_loaded >>
    /\ UNCHANGED << accVars, prev, fnVars, runVars, callVars, failuresLeft, pc, stats, store >>

ClientAccessor ==
    /\ pc = "client"
    /\ lpc \in {"idle", "returned"}
    /\ acc_calls < MaxAccessorCalls
    /\ \E op \in Accessors : \E out \in AccessorOutcomes(session, loaded) :
         acc' = [ op |-> op, outcome |-> out, after_failed |-> ever_failed,
                  loads_before |-> load_calls ]
    /\ acc_calls' = acc_calls + 1
    /\ UNCHANGED << extVars, runVars, callVars, failuresLeft, pc, stats, store, prev,
                    fnVars >>

(* --------------------------- F1DataPipeline ---------------------------- *)
\* F1DataPipeline.__init__: all counters start at zero
InitStats ==
    [ total_sessions |-> 0, successful_sessions |-> 0, failed_sessions |-> 0,
      skipped_sessions |-> 0, total_data_types |-> 0, failed_data_types |-> 0,
      pre_2018_warnings |-> 0, sprint_qualifying_sessions |-> 0 ]

\* the composite keys (year, grand_prix, session, data_type) of the table
StoreKeys ==
    { << y, g, s, d >> :
        y \in AllYears, g \in 1..MaxEvents, s \in SessionChoices, d \in DataTypes }

NoDocuments == [ d \in DataTypes |-> Missing ]
NoResults   == [ d \in DataTypes |-> "none" ]
NoBackup    == [ attempted |-> FALSE, written |-> FALSE, passed |-> NoDocuments,
                 data |-> NoDocuments ]

\* the keys a document map has
Keys(m) == { d \in DataTypes : m[d] # Missing }

\* the composite key process_session works on
CurKey(dt) == << years[yearIdx], events[gpIdx], specific_session, dt >>

\* get_events_for_year(year): the non-testing events of the season, or []
\* when the schedule cannot be fetched
GetEvents ==
    /\ pc = "run_year"
    /\ yearIdx <= Len(years)
    /\ \E raises \in BOOLEAN : \E n \in 0..MaxEvents :
         /\ stats.total_sessions + n <= MaxSessions
         /\ events' = IF raises THEN << >> ELSE [ i \in 1..n |-> i ]
    /\ gpIdx' = 1
    /\ pc' = "run_gp"
    /\ UNCHANGED << extVars, accVars, prev, fnVars, callVars, failuresLeft, stats, store,
                    years, specific_session, yearIdx, printed, interrupted_at >>

\* run(): the grand_prix loop; with specific_session the session loop has
\* the single element specific_session
RunNext ==
    /\ pc = "run_gp"
    /\ IF gpIdx <= Len(events)
       THEN /\ pc' = "ps_entry"
            /\ UNCHANGED yearIdx
       ELSE /\ pc' = "run_year"
            /\ yearIdx' = yearIdx + 1
    /\ UNCHANGED << extVars, accVars, prev, fnVars, callVars, failuresLeft, stats, store,
                    years, specific_session, events, gpIdx, printed, interrupted_at >>

\* run(): after the last year the statistics are printed
RunEnd ==
    /\ pc = "run_year"
    /\ yearIdx > Len(years)
    /\ printed' = TRUE
    /\ pc' = "done"
    /\ UNCHANGED << extVars, accVars, prev, fnVars, callVars, failuresLeft, stats, store,
                    years, specific_session, yearIdx, events, gpIdx, interrupted_at >>

\* the counters process_session updates before its try block
EntryStats(st, year, stype) ==
    [ st EXCEPT
        !.total_sessions = @ + 1,
        !.pre_2018_warnings = IF year < FirstTelemetryYear THEN @ + 1 ELSE @,
        !.sprint_qualifying_sessions =
            IF stype \in {"Sprint Qualifying", "SQ"} THEN @ + 1 ELSE @ ]

\* process_session, up to its try block
ProcessSessionBegin ==
    /\ pc = "ps_entry"
    /\ stats' = EntryStats(stats, years[yearIdx], specific_session)
    /\ statsBefore' = stats
    /\ storeBefore' = store
    /\ pc' = "ps_construct"
    /\ UNCHANGED << extVars, accVars, prev, fnVars, runVars, failuresLeft, store,
                    all_data, tIdx, raised, backup, filtered_data, uploadIdx,
                    upload_results, upload_called, ret, handled >>

\* extractor = FastF1Extractor(year, grand_prix, session_type)
PsConstruct ==
    /\ pc = "ps_construct"
    /\ NewExtractor
    /\ pc' = "ps_call_load"
    /\ UNCHANGED << accVars, prev, fnVars, runVars, callVars, failuresLeft,
                    stats, store >>

\* extractor.load_session() with its default arguments
PsCallLoad ==
    /\ pc = "ps_call_load"
    /\ CallLoadSession(DefaultMaxRetries)
    /\ pc' = "ps_load"
    /\ UNCHANGED << session, loaded, upstream, ever_failed, first_loaded,
                    accVars, prev, fnVars, runVars, callVars, failuresLeft, stats, store >>

\* the load_session call is over: its frame and locals are gone
LoadFrameGone ==
    /\ lpc' = "idle"
    /\ max_retries' = 0
    /\ attempt' = 0
    /\ load_result' = "None"
    /\ attempts_made' = 0
    /\ sleeps' = 0

\* `not extractor.load_session()`: False and None both skip the session
LoadFailed(result) == result # "True"

\* a skipped session counted as a failed one
SkipStats_as_failed(st) == [ st EXCEPT !.failed_sessions = @ + 1 ]

\* the counter of a session that could not be loaded
SkipStats(st) == [ st EXCEPT !.skipped_sessions = @ + 1 ]

\* `if not extractor.load_session(): ... return False`, else the transformer
\* is constructed and all_data starts empty
PsAfterLoad ==
    /\ pc = "ps_load"
    /\ lpc = "returned"
    /\ IF LoadFailed(load_result)
       THEN /\ stats' = SkipStats(stats)
            /\ ret' = "False"
            /\ handled' = "skipped"
            /\ pc' = "ps_return"
            /\ UNCHANGED << all_data, tIdx >>
       ELSE /\ all_data' = NoDocuments
            /\ tIdx' = 1
            /\ pc' = "ps_transform"
            /\ UNCHANGED << stats, ret, handled >>
    /\ LoadFrameGone
    /\ UNCHANGED << session, loaded, upstream, load_calls, ever_failed,
                    first_loaded, accVars, prev, fnVars, runVars, failuresLeft, store,
                    raised, backup, filtered_data, uploadIdx, upload_results,
                    upload_called, statsBefore, storeBefore >>

\* an except branch that only logs and leaves the key out of all_data
OnTransformRaise_no_key(data, dt) == data

\* the except branch of a transform's own try block
OnTransformRaise(data, dt) == [ data EXCEPT ![dt] = Sentinel(dt) ]

\* a process_session that gives up the transforms at the first that raises
AfterTransform_stops_on_raise(i, didRaise) ==
    IF didRaise \/ i = Len(TransformOrder) THEN "ps_backup" ELSE "ps_transform"

\* where process_session goes after the transform at position i, whether
\* it raised or not
AfterTransform(i, didRaise) ==
    IF i = Len(TransformOrder) THEN "ps_backup" ELSE "ps_transform"

\* one of the seven `try: all_data[k] = transformer.transform_k()` blocks
PsTransform ==
    /\ pc = "ps_transform"
    /\ LET dt == TransformOrder[tIdx]
           didRaise == TransformRaises(dt, upstream)
       IN  /\ all_data' = IF didRaise THEN OnTransformRaise(all_data, dt)
                          ELSE [ all_data EXCEPT ![dt] = TransformValue(dt, upstream.shape) ]
           /\ raised' = IF didRaise THEN raised \cup {dt} ELSE raised
           /\ pc' = AfterTransform(tIdx, didRaise)
    /\ tIdx' = tIdx + 1
    /\ UNCHANGED << extVars, accVars, prev, fnVars, runVars, failuresLeft, stats, store,
                    backup, filtered_data, uploadIdx, upload_results,
                    upload_called, ret, handled, statsBefore, storeBefore >>

\* a backup step whose write error ends the session's processing
AfterBackup_skips_upload(ok) == IF ok THEN "ps_filter" ELSE "ps_finish"

\* where process_session goes after save_json_backup returned, whether the
\* file was written or the error was logged
AfterBackup(ok) == "ps_filter"

\* save_json_backup: is passed the whole document map and writes it, or
\* fails and only logs
PsBackup ==
    /\ pc = "ps_backup"
    /\ \E ok \in BOOLEAN :
         /\ ok \/ failuresLeft > 0
         /\ backup' = [ attempted |-> TRUE, written |-> ok, passed |-> all_data,
                        data |-> IF ok THEN all_data ELSE NoDocuments ]
         /\ failuresLeft' = IF ok THEN failuresLeft ELSE failuresLeft - 1
         /\ pc' = AfterBackup(ok)
    /\ UNCHANGED << extVars, accVars, prev, fnVars, runVars,
                    stats, store, all_data, tIdx, raised, filtered_data,
                    uploadIdx, upload_results, upload_called, ret, handled,
                    statsBefore, storeBefore >>

\* filtered_data: the keys of all_data whose payload is not empty, in
\* insertion order
Filtered(data) ==
    SelectSeq(TransformOrder, LAMBDA d : data[d] # Missing /\ ~ is_empty(data[d]))

\* Step 4 and the test `if filtered_data:` of step 5
PsFilter ==
    /\ pc = "ps_filter"
    /\ filtered_data' = Filtered(all_data)
    /\ uploadIdx' = 1
    /\ upload_called' = (Filtered(all_data) # << >>)
    /\ pc' = IF Filtered(all_data) # << >> THEN "ps_upload" ELSE "ps_finish"
    /\ UNCHANGED << extVars, accVars, prev, fnVars, runVars, failuresLeft, stats, store,
                    all_data, tIdx, raised, backup, upload_results, ret, handled,
                    statsBefore, storeBefore >>

\* an insert that leaves an existing record of the key alone
Upsert_insert_only(table, key, payload) ==
    IF table[key] = NoRecord THEN [ table EXCEPT ![key] = payload ] ELSE table

\* the table after an upsert on a composite key
Upsert(table, key, payload) == [ table EXCEPT ![key] = payload ]

\* upload_session's loop: one upload_data call, which upserts and returns
\* True, or catches the store's error and returns False
PsUpload ==
    /\ pc = "ps_upload"
    /\ LET dt == filtered_data[uploadIdx]
       IN  \E ok \in BOOLEAN :
             /\ ok \/ failuresLeft > 0
             /\ store' = IF ok THEN Upsert(store, CurKey(dt), all_data[dt]) ELSE store
             /\ upload_results' = [ upload_results EXCEPT ![dt] = IF ok THEN "True" ELSE "False" ]
             /\ failuresLeft' = IF ok THEN failuresLeft
                                      ELSE failuresLeft - 1
    /\ uploadIdx' = uploadIdx + 1
    /\ pc' = IF uploadIdx = Len(filtered_data) THEN "ps_finish" ELSE "ps_upload"
    /\ UNCHANGED << extVars, accVars, prev, fnVars, runVars, stats,
                    all_data, tIdx, raised, backup, filtered_data,
                    upload_called, ret, handled, statsBefore, storeBefore >>

\* counters that take only the accepted uploads into total_data_types
UploadStats_accepted_only(st, results) ==
    [ st EXCEPT
        !.total_data_types = @ + Cardinality({ d \in DataTypes : results[d] = "True" }),
        !.failed_data_types = @ + Cardinality({ d \in DataTypes : results[d] = "False" }) ]

\* the counters after upload_session returned its result map
UploadStats(st, results) ==
    [ st EXCEPT
        !.total_data_types = @ + Cardinality({ d \in DataTypes : results[d] # "none" }),
        !.failed_data_types = @ + Cardinality({ d \in DataTypes : results[d] = "False" }) ]

\* the end of the try block: the upload counters, the success counter,
\* return True
PsFinish ==
    /\ pc = "ps_finish"
    /\ stats' = [ (IF upload_called THEN UploadStats(stats, upload_results) ELSE stats)
                    EXCEPT !.successful_sessions = @ + 1 ]
    /\ ret' = "True"
    /\ handled' = "ok"
    /\ pc' = "ps_return"
    /\ UNCHANGED << extVars, accVars, prev, fnVars, runVars, failuresLeft, store,
                    all_data, tIdx, raised, backup, filtered_data, uploadIdx,
                    upload_results, upload_called, statsBefore, storeBefore >>

\* the places of the try block where an exception is not inside a callee's
\* own handler: the two constructors, the filter, the counter updates
EscapePoints == { "ps_construct", "ps_filter", "ps_finish" }

\* a handler that also counts the failed session as a failed data type
ExceptStats_counts_data_type(st) ==
    [ st EXCEPT !.failed_sessions = @ + 1, !.total_data_types = @ + 1,
                !.failed_data_types = @ + 1 ]

\* a handler that logs the exception and does not count it
ExceptStats_uncounted(st) == st

\* the counter of a session that ended in process_session's handler
ExceptStats(st) == [ st EXCEPT !.failed_sessions = @ + 1 ]

\* `except Exception as e:` of process_session
PsExcept ==
    /\ pc \in EscapePoints
    /\ failuresLeft > 0
    /\ failuresLeft' = failuresLeft - 1
    /\ stats' = ExceptStats(stats)
    /\ ret' = "False"
    /\ handled' = "except"
    /\ pc' = "ps_return"
    /\ UNCHANGED << extVars, accVars, prev, fnVars, runVars,
                    store, all_data, tIdx, raised, backup, filtered_data,
                    uploadIdx, upload_results, upload_called, statsBefore,
                    storeBefore >>

\* a process_session call is over: its locals and its extractor are gone
CallOver ==
    /\ all_data' = NoDocuments
    /\ tIdx' = 1
    /\ raised' = {}
    /\ backup' = NoBackup
    /\ filtered_data' = << >>
    /\ uploadIdx' = 1
    /\ upload_results' = NoResults
    /\ upload_called' = FALSE
    /\ ret' = "none"
    /\ statsBefore' = stats
    /\ storeBefore' = store
    /\ session' = None
    /\ loaded' = FALSE
    /\ upstream' = NoUpstream
    /\ load_calls' = 0
    /\ ever_failed' = FALSE
    /\ first_loaded' = None
    /\ LoadFrameGone

\* process_session has returned to run() and the loop moves to the next
\* combination
PsReturn ==
    /\ pc = "ps_return"
    /\ gpIdx' = gpIdx + 1
    /\ pc' = "run_gp"
    /\ handled' = ""
    /\ CallOver
    /\ UNCHANGED << accVars, prev, fnVars, failuresLeft, stats, store,
                    years, specific_session, yearIdx, events, printed, interrupted_at >>

\* positions inside the process_session call of run()'s try block
InSession == { "ps_entry", "ps_construct", "ps_call_load", "ps_load", "ps_transform",
               "ps_backup", "ps_filter", "ps_upload", "ps_finish", "ps_return" }

\* KeyboardInterrupt: inside process_session no `except Exception` catches
\* it and run() prints the statistics and returns; while the schedule is
\* fetched it is outside run()'s try block and leaves run()
Interrupt ==
    /\ pc \in InSession \cup {"run_year"}
    /\ IF pc \in InSession
       THEN /\ printed' = TRUE
            /\ pc' = "done"
       ELSE /\ yearIdx <= Len(years)
            /\ pc' = "propagated"
            /\ UNCHANGED printed
    /\ handled' = "interrupt"
    /\ interrupted_at' = pc
    /\ CallOver
    /\ UNCHANGED << accVars, prev, fnVars, failuresLeft, stats, store,
                    years, specific_session, yearIdx, events, gpIdx >>

\* no earlier call on the combination is on record
NoPrev ==
    [ calls |-> 0, ret |-> "none", upstream |-> NoUpstream,
      issued |-> NoDocuments, results |-> NoResults, store |-> << >> ]

\* the upserts upload_session has issued in this call: payload by data type
Issued == [ d \in DataTypes |->
              IF upload_results[d] # "none" THEN all_data[d] ELSE Missing ]

\* process_session has returned and its caller calls it once more with the
\* same (year, grand_prix, session_type)
CallAgain ==
    /\ pc = "ps_return"
    /\ prev.calls = 0
    /\ prev' = [ calls |-> 1, ret |-> ret, upstream |-> upstream,
                 issued |-> Issued, results |-> upload_results, store |-> store ]
    /\ handled' = ""
    /\ pc' = "ps_entry"
    /\ CallOver
    /\ UNCHANGED << accVars, fnVars, runVars, failuresLeft, stats, store >>

(* ------------------ standings and the transforms on them ---------------- *)
\* pandas' missing value (NaN, NaT) of a Position, Points or time column
NaN == -1

\* the position the code gives where it finds none
PositionSentinel == 999
\* the points transform_session_results gives a row without Points
DefaultPoints == 0
\* the rows transform_podium takes from the head of the standings
PodiumSize == 3

\* the rows transform_track_dominance takes from the head of the standings
DominanceSize == 2
\* num_minisectors of transform_track_dominance
NumMinisectors == 25

\* text is a sequence of characters; the colour the transforms give a row
\* of a table without a TeamColor column
Gray == << "C", "C", "C", "C", "C", "C" >>
\* what an f-string makes of pandas' missing value
NullText == << "n", "a", "n" >>

\* row.get(key, default): the default only for a table without the column
RowGet(row, key, default) == IF key \in DOMAIN row THEN row[key] ELSE default

\* f"#{row.get('TeamColor', 'CCCCCC')}"
HashColor(row) == << "#" >> \o RowGet(row, "TeamColor", Gray)

\* the column of a table as a function of the row index
PositionColumn(rows) == [ i \in 1..Len(rows) |-> rows[i].Position ]
DriverNumberColumn(rows) == [ i \in 1..Len(rows) |-> rows[i].DriverNumber ]

\* results['Position'].notna().all(): a check that wants every row placed
HasValidPositions_all(res) == \A i \in 1..Len(res) : res[i].Position # NaN

\* results['Position'].notna().any()
HasValidPositions(res) == \E i \in 1..Len(res) : res[i].Position # NaN

\* the orders a sort by key may give the rows of idx, which all have a
\* key: ascending, rows with equal keys in any order (the default sort of
\* sort_values is not a stable one)
RECURSIVE OrdersBy(_, _)
OrdersBy(idx, key) ==
    IF idx = {} THEN { << >> }
    ELSE UNION { { << i >> \o t : t \in OrdersBy(idx \ {i}, key) } :
                 i \in { j \in idx : \A k \in idx : key[j] <= key[k] } }

\* the order a stable sort by key gives the rows of idx: ascending, rows
\* with equal keys in their order of idx
RECURSIVE StableOrder(_, _)
StableOrder(idx, key) ==
    IF idx = {} THEN << >>
    ELSE LET m == CHOOSE i \in idx :
                    \A k \in idx : key[i] < key[k] \/ (key[i] = key[k] /\ i <= k)
         IN  << m >> \o StableOrder(idx \ {m}, key)

\* DataFrame.sort_values(column): the rows with a value ascending, then the
\* rows without one in table order (na_position='last')
SortValues(rows, column) ==
    LET n       == Len(rows)
        withKey == { i \in 1..n : column[i] # NaN }
        noKey   == StableOrder((1..n) \ withKey, [ i \in 1..n |-> 0 ])
    IN  { [ k \in 1..n |-> rows[(o \o noKey)[k]] ] : o \in OrdersBy(withKey, column) }

\* laps[laps['Driver'] == abbr]
LapsOf(ls, abbr) == { l \in ls : l.Driver = abbr }

\* laps[laps['LapNumber'] == laps['LapNumber'].max()]
FinalLaps(ls) == { l \in ls : \A x \in ls : x.LapNumber <= l.LapNumber }

\* a fallback that never reads the lap's position
FinalLapPosition_sentinel(lap, hasColumn) == PositionSentinel

\* driver_final.iloc[0].get('Position', 999)
FinalLapPosition(lap, hasColumn) ==
    IF hasColumn THEN lap.Position ELSE PositionSentinel

\* the Race/Sprint branch: the position of each driver on the final lap
RaceFallback(res, ls, hasColumn) ==
    [ i \in 1..Len(res) |->
        LET driver_final == LapsOf(FinalLaps(ls), res[i].Abbreviation)
        IN  IF driver_final = {} THEN res[i]
            ELSE [ res[i] EXCEPT !.Position =
                     FinalLapPosition(CHOOSE l \in driver_final : TRUE, hasColumn) ] ]

\* the lap times of a driver that are not missing
ValidLapTimes(ls, abbr) ==
    { l.LapTime : l \in { x \in LapsOf(ls, abbr) : x.LapTime # NaN } }

\* a best lap that is the slowest one
BestLapTime_max(times) == CHOOSE t \in times : \A u \in times : u <= t

\* valid_laps['LapTime'].min()
BestLapTime(times) == CHOOSE t \in times : \A u \in times : t <= u

\* the place of row i in an order of rows
RankIn(o, i) == CHOOSE k \in 1..Len(o) : o[k] = i

\* the practice/qualifying branch: the drivers with a valid lap are ranked
\* by their best lap time and get the rank as Position and the time as Time
QualifyingFallback(res, ls) ==
    LET have == { i \in 1..Len(res) : ValidLapTimes(ls, res[i].Abbreviation) # {} }
        best == [ i \in 1..Len(res) |->
                    IF i \in have THEN BestLapTime(ValidLapTimes(ls, res[i].Abbreviation))
                    ELSE NaN ]
    IN  { [ i \in 1..Len(res) |->
              IF i \in have
              THEN [ res[i] EXCEPT !.Position = RankIn(o, i), !.Time = best[i] ]
              ELSE res[i] ] : o \in OrdersBy(have, best) }

\* the session types of the finishing-order branch
RaceTypes == { "Race", "Sprint" }

\* get_driver_standings(): the tables it can return
GetDriverStandings(stype, res, ls, hasColumn) ==
    IF HasValidPositions(res) THEN SortValues(res, PositionColumn(res))
    ELSE IF ls = {} THEN SortValues(res, DriverNumberColumn(res))
    ELSE IF stype \in RaceTypes
         THEN LET r == RaceFallback(res, ls, hasColumn)
              IN  SortValues(r, PositionColumn(r))
         ELSE UNION { SortValues(r, PositionColumn(r)) : r \in QualifyingFallback(res, ls) }

\* a missing position rendered as 0
PositionOrSentinel_zero(p) == IF p # NaN THEN p ELSE 0

\* int(row['Position']) if pd.notna(row['Position']) else 999
PositionOrSentinel(p) == IF p # NaN THEN p ELSE PositionSentinel

\* int(row.get('Points', 0)) if pd.notna(row.get('Points')) else 0
PointsOrDefault(q) == IF q # NaN THEN q ELSE DefaultPoints

\* _format_timedelta: "DNF" for a missing time, else the time as a string
FormatTimedelta(td) == IF td = NaN THEN "DNF" ELSE ToString(td)

\* the entry transform_session_results builds for a standing row
SessionResultsEntry(row) ==
    [ Position     |-> PositionOrSentinel(row.Position),
      Abbreviation |-> ToString(row.Abbreviation),
      TeamName     |-> row.TeamName,
      TeamLogo     |-> << "logo", row.TeamName >>,
      TeamColor    |-> HashColor(row),
      Status       |-> row.Status,
      Time         |-> FormatTimedelta(row.Time),
      DriverNumber |-> ToString(row.DriverNumber),
      Points       |-> PointsOrDefault(row.Points) ]

\* transform_session_results on the standings st: one entry per row, then
\* Python's stable sorted() by Position
TransformSessionResults(st) ==
    LET entries == [ i \in 1..Len(st) |-> SessionResultsEntry(st[i]) ]
        o       == StableOrder(1..Len(st), PositionColumn(entries))
    IN  [ k \in 1..Len(st) |-> entries[o[k]] ]

\* the entry transform_podium builds for a standing row
PodiumEntry(row) ==
    [ Position     |-> row.Position,
      Abbreviation |-> ToString(row.Abbreviation),
      TeamName     |-> row.TeamName,
      TeamColor    |-> HashColor(row),
      TeamLogo     |-> << "logo", row.TeamName >>,
      HeadshotUrl  |-> << "headshot", ToString(row.Abbreviation) >>,
      Status       |-> row.Status,
      Time         |-> FormatTimedelta(row.Time) ]

\* results.head(3)
HeadRows(st, k) == SubSeq(st, 1, IF Len(st) < k THEN Len(st) ELSE k)

\* transform_podium on the standings st: the first three rows, those
\* without a Position skipped
TransformPodium(st) ==
    LET placed == SelectSeq(HeadRows(st, PodiumSize), LAMBDA row : row.Position # NaN)
    IN  [ k \in 1..Len(placed) |-> PodiumEntry(placed[k]) ]

\* results.head(2)
TopTwo(st) == HeadRows(st, DominanceSize)

\* the DriverNumber column of the lap table: the number the results table
\* gives the lap's driver
LapDriverNumber(l, res) ==
    LET rows == { i \in 1..Len(res) : res[i].Abbreviation = l.Driver }
    IN  IF rows = {} THEN NaN ELSE res[CHOOSE i \in rows : TRUE].DriverNumber

\* laps[laps['DriverNumber'] == num]
LapsOfNumber(ls, res, num) == { l \in ls : LapDriverNumber(l, res) = num }

\* pick_fastest() finds a lap: some lap of the driver has a time
HasFastestLap(ls) == \E l \in ls : l.LapTime # NaN

\* pick_fastest(): the lap with the smallest time
PickFastest(ls) ==
    CHOOSE l \in ls : l.LapTime # NaN /\ \A x \in ls : x.LapTime # NaN => l.LapTime <= x.LapTime

\* no telemetry for the lap: get_telemetry() raises
NoTelemetry == [ available |-> FALSE, points |-> {} ]

\* tel['Driver'] = abbr: the points of a lap with the driver's name on them
Tagged(points, abbr) ==
    { [ Driver |-> abbr, Distance |-> p.Distance, Speed |-> p.Speed,
        X |-> p.X, Y |-> p.Y ] : p \in points }

\* telemetry['Distance'].max()
TotalDistance(tel) ==
    (CHOOSE p \in tel : \A q \in tel : q.Distance <= p.Distance).Distance

\* (Distance // (total_distance / num_minisectors)).astype(int), for
\* distances and a minisector length that floats hold exactly
Minisector(distance, total) == (distance * NumMinisectors) \div total

\* the points of a driver in a minisector
PointsIn(tel, total, m, driver) ==
    { p \in tel : p.Driver = driver /\ Minisector(p.Distance, total) = m }

RECURSIVE SumSpeed(_)
SumSpeed(points) ==
    IF points = {} THEN 0
    ELSE LET p == CHOOSE q \in points : TRUE
         IN  p.Speed + SumSpeed(points \ {p})

\* the mean speed of a is above the mean speed of b, or equal to it
MeanAbove(a, b) == SumSpeed(a) * Cardinality(b) > SumSpeed(b) * Cardinality(a)
MeanEqual(a, b) == SumSpeed(a) * Cardinality(b) = SumSpeed(b) * Cardinality(a)

\* groupby(['Minisector', 'Driver']).mean(), then idxmax per minisector:
\* the driver with the highest mean speed, of two with the same mean the
\* first in the order of the names
FastestDriver(tel, total, m) ==
    LET drivers == { p.Driver : p \in { q \in tel : Minisector(q.Distance, total) = m } }
    IN  CHOOSE a \in drivers : \A b \in drivers :
            \/ MeanAbove(PointsIn(tel, total, m, a), PointsIn(tel, total, m, b))
            \/ /\ MeanEqual(PointsIn(tel, total, m, a), PointsIn(tel, total, m, b))
               /\ a <= b

\* sort_values('Distance') and the [X, Y] pairs of the rows
RECURSIVE PointsByDistance(_)
PointsByDistance(points) ==
    IF points = {} THEN << >>
    ELSE LET p == CHOOSE q \in points : \A r \in points : q.Distance <= r.Distance
         IN  << << p.X, p.Y >> >> \o PointsByDistance(points \ {p})

Segment(driver, points) == [ fastestDriver |-> ToString(driver), points |-> points ]

\* segments.append(...) when the walk has a driver and points for them
Flushed(walk) ==
    IF walk.current_driver # None /\ walk.current_points # << >>
    THEN Append(walk.segments, Segment(walk.current_driver, walk.current_points))
    ELSE walk.segments

\* one pass of the loop over the minisectors
WalkStep(walk, tel, total, m) ==
    LET fastest == FastestDriver(tel, total, m)
        points  == PointsByDistance(PointsIn(tel, total, m, fastest))
    IN  IF fastest = walk.current_driver
        THEN [ walk EXCEPT !.current_points = @ \o points ]
        ELSE [ current_driver |-> fastest, current_points |-> points,
               segments |-> Flushed(walk) ]

\* the loop over sorted(fastest_driver['Minisector'].unique()) from m on
RECURSIVE WalkFrom(_, _, _, _)
WalkFrom(walk, tel, total, m) ==
    IF \A p \in tel : Minisector(p.Distance, total) < m THEN walk
    ELSE IF \E p \in tel : Minisector(p.Distance, total) = m
         THEN WalkFrom(WalkStep(walk, tel, total, m), tel, total, m + 1)
         ELSE WalkFrom(walk, tel, total, m + 1)

\* the segments of the merged telemetry: the walk and the final append
Segments(tel) ==
    Flushed(WalkFrom([ current_driver |-> None, current_points |-> << >>,
                       segments |-> << >> ], tel, TotalDistance(tel), 0))

\* the document for less than two standing rows
EmptyDominance == [ drivers |-> << >>, teamColors |-> << >>, segments |-> << >> ]

\* the document with the two drivers and their colours
Dominance(first, second, segments) ==
    [ drivers    |-> << ToString(first.Abbreviation), ToString(second.Abbreviation) >>,
      teamColors |-> << RowGet(first, "TeamColor", Gray),
                        RowGet(second, "TeamColor", Gray) >>,
      segments   |-> segments ]

\* the try block of transform_track_dominance ends in its except clause:
\* pick_fastest() found no lap, get_telemetry() raised, or the minisector
\* length is 0 and the index is not a number
DominanceRaises(laps1, laps2, tel) ==
    \/ ~ HasFastestLap(laps1)
    \/ ~ HasFastestLap(laps2)
    \/ ~ tel[PickFastest(laps1).Driver].available
    \/ ~ tel[PickFastest(laps2).Driver].available
    \/ LET merged == tel[PickFastest(laps1).Driver].points
                        \cup tel[PickFastest(laps2).Driver].points
       IN  merged # {} /\ TotalDistance(merged) = 0

\* transform_track_dominance on the standings st
TransformTrackDominance(st, res, ls, tel) ==
    IF Len(TopTwo(st)) < DominanceSize THEN EmptyDominance
    ELSE LET first  == TopTwo(st)[1]
             second == TopTwo(st)[2]
             laps1  == LapsOfNumber(ls, res, first.DriverNumber)
             laps2  == LapsOfNumber(ls, res, second.DriverNumber)
         IN  IF laps1 = {} \/ laps2 = {} THEN Dominance(first, second, << >>)
             ELSE IF DominanceRaises(laps1, laps2, tel)
                  THEN Dominance(first, second, << >>)
                  ELSE LET merged ==
                             Tagged(tel[PickFastest(laps1).Driver].points,
                                    first.Abbreviation)
                               \cup Tagged(tel[PickFastest(laps2).Driver].points,
                                           second.Abbreviation)
                       IN  Dominance(first, second,
                                     IF merged = {} THEN << >> ELSE Segments(merged))

\* a lap time format without the zero padding of the seconds
FormatLapTime_unpadded(ms) ==
    ToString(ms \div 60000) \o ":" \o ToString((ms % 60000) \div 1000) \o "."
        \o ToString(((ms % 1000) \div 100) % 10) \o ToString(((ms % 1000) \div 10) % 10)
        \o ToString(ms % 10)

\* f"{minutes}:{seconds:06.3f}" of a lap time in milliseconds: the whole
\* minutes, the seconds of the rest in two digits and three decimals
FormatLapTime(ms) ==
    ToString(ms \div 60000) \o ":"
        \o ToString(((ms % 60000) \div 10000) % 10) \o ToString(((ms % 60000) \div 1000) % 10)
        \o "."
        \o ToString(((ms % 1000) \div 100) % 10) \o ToString(((ms % 1000) \div 10) % 10)
        \o ToString(ms % 10)

\* the entry transform_lap_chart_data builds for a lap with a time
LapChartEntry(lap) ==
    [ driver |-> ToString(lap.Driver), lapNumber |-> lap.LapNumber,
      lapTime |-> FormatLapTime(lap.LapTime) ]

\* transform_lap_chart_data on the standings st: the first three drivers
\* and an entry for each lap with a time (the lap table's order is not
\* modelled)
TransformLapChartData(st, ls) ==
    [ podium |-> [ k \in 1..Len(HeadRows(st, PodiumSize)) |->
                     ToString(HeadRows(st, PodiumSize)[k].Abbreviation) ],
      laps   |-> { LapChartEntry(l) : l \in { x \in ls : x.LapTime # NaN } } ]

\* the table session.results is after a call that wrote the fallback's
\* Position and Time into the session's own rows
SessionResultsAfter_in_place(res, st) ==
    [ i \in 1..Len(res) |->
        st[CHOOSE k \in 1..Len(st) : st[k].Abbreviation = res[i].Abbreviation] ]

\* the table session.results is after get_driver_standings(), which works
\* on results.copy()
SessionResultsAfter(res, st) == res

\* what a transform's caller gets when the transform raises
Raised == [ raised |-> "ValueError: Session not loaded" ]

\* no transform has returned a dict
NoDocument == [ returned |-> FALSE ]

\* a call of get_driver_standings() on a loaded extractor
CallGetDriverStandings ==
    /\ pc = "call"
    /\ called = "none"
    /\ session # None
    /\ \E st \in GetDriverStandings(session_type, session_results, session_laps,
                                     laps_position) :
         /\ standings' = st
         /\ output' = << >>
         /\ session_results' = SessionResultsAfter(session_results, st)
    /\ called' = "get_driver_standings"
    /\ UNCHANGED << session_type, session_laps, laps_position, telemetry, document >>
    /\ UNCHANGED << extVars, accVars, runVars, callVars, failuresLeft, pc, stats,
                    store, prev >>

\* a call of transform_session_results(), which calls get_driver_standings()
CallTransformSessionResults ==
    /\ pc = "call"
    /\ called = "none"
    /\ session # None
    /\ \E st \in GetDriverStandings(session_type, session_results, session_laps,
                                     laps_position) :
         /\ standings' = st
         /\ output' = TransformSessionResults(st)
         /\ session_results' = SessionResultsAfter(session_results, st)
    /\ called' = "transform_session_results"
    /\ UNCHANGED << session_type, session_laps, laps_position, telemetry, document >>
    /\ UNCHANGED << extVars, accVars, runVars, callVars, failuresLeft, pc, stats,
                    store, prev >>

\* a call of transform_podium(), which calls get_driver_standings()
CallTransformPodium ==
    /\ pc = "call"
    /\ called = "none"
    /\ session # None
    /\ \E st \in GetDriverStandings(session_type, session_results, session_laps,
                                     laps_position) :
         /\ standings' = st
         /\ output' = TransformPodium(st)
         /\ session_results' = SessionResultsAfter(session_results, st)
    /\ called' = "transform_podium"
    /\ UNCHANGED << session_type, session_laps, laps_position, telemetry, document >>
    /\ UNCHANGED << extVars, accVars, runVars, callVars, failuresLeft, pc, stats,
                    store, prev >>

\* a call of transform_track_dominance(), which calls
\* get_driver_standings() before its try block
CallTransformTrackDominance ==
    /\ pc = "call"
    /\ called = "none"
    /\ IF SessionGuardRaises(session)
       THEN /\ standings' = << >>
            /\ document' = Raised
            /\ UNCHANGED session_results
       ELSE \E st \in GetDriverStandings(session_type, session_results, session_laps,
                                         laps_position) :
              /\ standings' = st
              /\ document' = TransformTrackDominance(st, session_results, session_laps,
                                                     telemetry)
              /\ session_results' = SessionResultsAfter(session_results, st)
    /\ called' = "transform_track_dominance"
    /\ UNCHANGED << session_type, session_laps, laps_position, telemetry, output >>
    /\ UNCHANGED << extVars, accVars, runVars, callVars, failuresLeft, pc, stats,
                    store, prev >>

\* a call of transform_lap_chart_data(), which calls get_laps() and
\* get_driver_standings()
CallTransformLapChartData ==
    /\ pc = "call"
    /\ called = "none"
    /\ IF SessionGuardRaises(session)
       THEN /\ standings' = << >>
            /\ document' = Raised
            /\ UNCHANGED session_results
       ELSE \E st \in GetDriverStandings(session_type, session_results, session_laps,
                                         laps_position) :
              /\ standings' = st
              /\ document' = TransformLapChartData(st, session_laps)
              /\ session_results' = SessionResultsAfter(session_results, st)
    /\ called' = "transform_lap_chart_data"
    /\ UNCHANGED << session_type, session_laps, laps_position, telemetry, output >>
    /\ UNCHANGED << extVars, accVars, runVars, callVars, failuresLeft, pc, stats,
                    store, prev >>

\* no standings call is modelled
FnIdle ==
    /\ session_type = "none"
    /\ session_results = << >>
    /\ session_laps = {}
    /\ laps_position = TRUE
    /\ telemetry = << >>
    /\ called = "none"
    /\ standings = << >>
    /\ output = << >>
    /\ document = NoDocument

(* --------------------------- specifications ---------------------------- *)
ExtractorInit ==
    /\ session = None
    /\ loaded = FALSE
    /\ upstream = NoUpstream
    /\ lpc = "idle"
    /\ max_retries = 0
    /\ attempt = 0
    /\ load_result = "None"
    /\ attempts_made = 0
    /\ sleeps = 0
    /\ load_calls = 0
    /\ ever_failed = FALSE
    /\ first_loaded = None
    /\ acc = NoCall
    /\ acc_calls = 0

CallInit ==
    /\ all_data = NoDocuments
    /\ tIdx = 1
    /\ raised = {}
    /\ backup = NoBackup
    /\ filtered_data = << >>
    /\ uploadIdx = 1
    /\ upload_results = NoResults
    /\ upload_called = FALSE
    /\ ret = "none"
    /\ handled = ""
    /\ statsBefore = InitStats
    /\ stats = InitStats
    /\ yearIdx = 1
    /\ events = << >>
    /\ gpIdx = 1
    /\ printed = FALSE
    /\ interrupted_at = ""

\* the table after an earlier run that processed the races only
EarlierRun ==
    [ k \in StoreKeys |-> IF k[3] = "Race" THEN OldPayload ELSE NoRecord ]

\* a run() of a new pipeline on that table
Init ==
    /\ ExtractorInit
    /\ CallInit
    /\ pc = "run_year"
    /\ \E c \in RunChoices :
         /\ years = c.years
         /\ specific_session = c.specific_session
    /\ store = EarlierRun
    /\ storeBefore = store
    /\ failuresLeft = MaxFailures
    /\ prev = NoPrev
    /\ FnIdle

Next ==
    \/ GetEvents
    \/ RunNext
    \/ RunEnd
    \/ ProcessSessionBegin
    \/ PsConstruct
    \/ PsCallLoad
    \/ LoadAttempt
    \/ LoadSleep
    \/ PsAfterLoad
    \/ PsTransform
    \/ PsBackup
    \/ PsFilter
    \/ PsUpload
    \/ PsFinish
    \/ PsExcept
    \/ PsReturn
    \/ Interrupt

Spec == Init /\ [][Next]_vars

\* a new extractor instance in the hands of a client
InitExtractor ==
    /\ ExtractorInit
    /\ CallInit
    /\ pc = "client"
    /\ years = << 2024 >>
    /\ specific_session = "Race"
    /\ store = EarlierRun
    /\ storeBefore = store
    /\ failuresLeft = 0
    /\ prev = NoPrev
    /\ FnIdle

NextExtractor ==
    \/ ClientLoadSession
    \/ ClientAccessor
    \/ LoadAttempt
    \/ LoadSleep

SpecExtractor == InitExtractor /\ [][NextExtractor]_vars

\* two process_session calls in a row on one combination of a season
\* whose races an earlier run has stored; a failure that may happen in both
\* calls counts twice
InitTwice ==
    /\ ExtractorInit
    /\ all_data = NoDocuments
    /\ tIdx = 1
    /\ raised = {}
    /\ backup = NoBackup
    /\ filtered_data = << >>
    /\ uploadIdx = 1
    /\ upload_results = NoResults
    /\ upload_called = FALSE
    /\ ret = "none"
    /\ handled = ""
    /\ stats = InitStats
    /\ statsBefore = InitStats
    /\ years = << 2024 >>
    /\ specific_session = "Race"
    /\ yearIdx = 1
    /\ events = << 1 >>
    /\ gpIdx = 1
    /\ printed = FALSE
    /\ interrupted_at = ""
    /\ pc = "ps_entry"
    /\ store = EarlierRun
    /\ storeBefore = store
    /\ failuresLeft = MaxFailures + 1
    /\ prev = NoPrev
    /\ FnIdle

NextTwice ==
    \/ ProcessSessionBegin
    \/ PsConstruct
    \/ PsCallLoad
    \/ LoadAttempt
    \/ LoadSleep
    \/ PsAfterLoad
    \/ PsTransform
    \/ PsBackup
    \/ PsFilter
    \/ PsUpload
    \/ PsFinish
    \/ PsExcept
    \/ CallAgain

SpecTwice == InitTwice /\ [][NextTwice]_vars

\* the colour of a team, as the provider gives it
TeamOrange == << "F", "F", "8", "0", "0", "0" >>

\* row i of a results table of n rows, in table order; the driver numbers
\* run against the table order
ResultRow(i, n, position, points) ==
    [ Abbreviation |-> i, DriverNumber |-> n + 1 - i, Position |-> position,
      Points |-> points, Time |-> IF position = NaN THEN NaN ELSE 60 + position,
      TeamName |-> "team", TeamColor |-> TeamOrange, Status |-> "Finished" ]

Lap(driver, number, time, position) ==
    [ Driver |-> driver, LapNumber |-> number, LapTime |-> time, Position |-> position ]

\* the laps of a driver in practice or qualifying: none (best = 0), one
\* without a time (best = NaN), or a slower lap, the best lap and a lap
\* without a time
QualifyingLaps(i, best) ==
    IF best = 0 THEN {}
    ELSE IF best = NaN THEN { Lap(i, 1, NaN, NaN) }
    ELSE { Lap(i, 1, best + 1, NaN), Lap(i, 2, best, NaN), Lap(i, 3, NaN, NaN) }

\* the laps of a driver who completed `last` laps of a race of n drivers,
\* running against the table order; without a recorded position when the
\* driver is the unplaced one or the lap table has no Position column
RaceLaps(i, n, last, unplaced, hasColumn) ==
    { Lap(i, j, 90 + j, IF i = unplaced \/ ~ hasColumn THEN NaN ELSE n + 1 - i) :
        j \in 1..last }

\* a session the provider classified: at least one row has a Position (the
\* lap table is not read), at most one row has no Points
ClassifiedSession(n) ==
    \E position \in [ 1..n -> { NaN } \cup (1..n) ] : \E nopoints \in 0..n :
        /\ \E i \in 1..n : position[i] # NaN
        /\ session_type = "Race"
        /\ session_results =
             [ i \in 1..n |-> ResultRow(i, n, position[i],
                                        IF i = nopoints THEN NaN ELSE n - i) ]
        /\ session_laps = {}
        /\ laps_position = TRUE

\* a practice or qualifying without any Position
UnclassifiedQualifying(n) ==
    \E stype \in { "Qualifying", "Practice 1" } :
    \E best \in [ 1..n -> { NaN } \cup (0..MaxLapTime) ] :
        /\ session_type = stype
        /\ session_results = [ i \in 1..n |-> ResultRow(i, n, NaN, NaN) ]
        /\ session_laps = UNION { QualifyingLaps(i, best[i]) : i \in 1..n }
        /\ laps_position = TRUE

\* a race or sprint without any Position, from a provider whose lap table
\* has a Position column or has none
UnclassifiedRace(n) ==
    \E stype \in RaceTypes : \E last \in [ 1..n -> 0..MaxLapNumber ] :
    \E hasColumn \in BOOLEAN : \E unplaced \in 0..n :
        /\ session_type = stype
        /\ session_results = [ i \in 1..n |-> ResultRow(i, n, NaN, NaN) ]
        /\ session_laps = UNION { RaceLaps(i, n, last[i], unplaced, hasColumn) : i \in 1..n }
        /\ laps_position = hasColumn

\* a fully classified session of one driver more than the other families
\* have, in table order or rotated against it
ClassifiedGrid ==
    \E shift \in 0..MaxDrivers :
        /\ session_type = "Race"
        /\ session_results =
             [ i \in 1..(MaxDrivers + 1) |->
                 ResultRow(i, MaxDrivers + 1, 1 + ((i + shift) % (MaxDrivers + 1)),
                           MaxDrivers + 1 - i) ]
        /\ session_laps = {}
        /\ laps_position = TRUE

\* no lap of the session has telemetry
NoneAvailable == [ i \in 1..(MaxDrivers + 1) |-> NoTelemetry ]

\* a results row whose TeamColor is given, null, or whose table has no
\* TeamColor column
ColorVariant(row, color) ==
    CASE color = "given"  -> row
      [] color = "null"   -> [ row EXCEPT !.TeamColor = NullText ]
      [] color = "absent" -> [ f \in (DOMAIN row) \ { "TeamColor" } |-> row[f] ]

\* the laps of the two drivers of a dominance comparison: three laps each,
\* one without a time; in the other cases the second driver has no lap at
\* all or no lap with a time
DominanceLaps(i, lapsCase) ==
    IF i = 1 THEN { Lap(1, 1, 90456, NaN), Lap(1, 2, NaN, NaN), Lap(1, 3, 5004, NaN) }
    ELSE IF lapsCase = "no_laps" THEN {}
    ELSE IF lapsCase = "untimed" THEN { Lap(i, 1, NaN, NaN), Lap(i, 2, NaN, NaN) }
    ELSE { Lap(i, 1, 59999, NaN), Lap(i, 2, 60000, NaN), Lap(i, 3, 3723004, NaN) }

\* the telemetry of a lap of 25 minisectors of `len` distance units each: a
\* point at every unit, and one at the end of the lap when the lap is the
\* longer one; the speed is 2 where the driver is the faster one, in the
\* minisectors before `split` for the early driver and from `split` on for
\* the other, and 1 elsewhere
LapTelemetry(i, len, split, early, hasEnd) ==
    LET sector(d) == IF d \div len >= NumMinisectors THEN NumMinisectors - 1
                     ELSE d \div len
        speed(d)  == IF (sector(d) < split) = early THEN 2 ELSE 1
    IN  { [ Distance |-> d, Speed |-> speed(d), X |-> d, Y |-> i ] :
            d \in 0..(IF hasEnd THEN NumMinisectors * len
                      ELSE NumMinisectors * len - 1) }

\* the telemetry of a car that never moved
StandingTelemetry(i) ==
    { [ Distance |-> 0, Speed |-> 0, X |-> k, Y |-> i ] : k \in 1..2 }

\* a classified race of two drivers with lap times and telemetry of their
\* fastest laps, and the cases in which the comparison is not possible
DominanceSession ==
    \E inOrder \in BOOLEAN : \E leaderEarly \in BOOLEAN :
    \E color \in { "given", "null", "absent" } :
    \E lapsCase \in { "timed", "no_laps", "untimed", "no_telemetry", "standing" } :
    \E len \in 1..MaxSectorLength : \E split \in 0..NumMinisectors :
    \E ender \in { "leader", "second", "both" } :
        /\ (color # "given" \/ lapsCase # "timed") =>
               /\ inOrder /\ leaderEarly /\ len = 1 /\ ender = "both"
               /\ split = (NumMinisectors + 1) \div 2
        /\ session_type = "Race"
        /\ session_results =
             [ i \in 1..2 |->
                 ColorVariant(ResultRow(i, 2, IF inOrder THEN i ELSE 3 - i, 25 - 7 * i),
                              IF i = 1 THEN color ELSE "given") ]
        /\ session_laps = DominanceLaps(1, lapsCase) \cup DominanceLaps(2, lapsCase)
        /\ laps_position = TRUE
        /\ telemetry =
             [ i \in 1..2 |->
                 LET leader == (i = 1) = inOrder
                 IN  IF lapsCase = "no_telemetry" /\ i = 2 THEN NoTelemetry
                     ELSE IF lapsCase = "standing"
                          THEN [ available |-> TRUE, points |-> StandingTelemetry(i) ]
                          ELSE [ available |-> TRUE,
                                 points |-> LapTelemetry(i, len, split,
                                                leader = leaderEarly,
                                                ender = "both" \/ (ender = "leader") = leader) ] ]

\* an extractor whose session was loaded
LoadedExtractor ==
    /\ session = 1
    /\ loaded = TRUE
    /\ lpc = "returned"
    /\ max_retries = DefaultMaxRetries
    /\ attempt = 0
    /\ load_result = "True"
    /\ attempts_made = 1
    /\ sleeps = 0
    /\ load_calls = 1
    /\ ever_failed = FALSE
    /\ first_loaded = 1

\* an extractor whose load_session was never called
FreshExtractor ==
    /\ session = None
    /\ loaded = FALSE
    /\ lpc = "idle"
    /\ max_retries = 0
    /\ attempt = 0
    /\ load_result = "None"
    /\ attempts_made = 0
    /\ sleeps = 0
    /\ load_calls = 0
    /\ ever_failed = FALSE
    /\ first_loaded = None
    /\ session_type = "Race"
    /\ session_results = << >>
    /\ session_laps = {}
    /\ laps_position = TRUE
    /\ telemetry = NoneAvailable

\* an extractor before one call of get_driver_standings or of a transform
\* that is built on it
InitStandings ==
    /\ upstream = NoUpstream
    /\ acc = NoCall
    /\ acc_calls = 0
    /\ CallInit
    /\ pc = "call"
    /\ years = << 2024 >>
    /\ specific_session = "Race"
    /\ store = EarlierRun
    /\ storeBefore = store
    /\ failuresLeft = 0
    /\ prev = NoPrev
    /\ called = "none"
    /\ standings = << >>
    /\ output = << >>
    /\ document = NoDocument
    /\ \/ /\ LoadedExtractor
          /\ telemetry = NoneAvailable
          /\ \/ \E n \in 0..MaxDrivers :
                  \/ ClassifiedSession(n)
                  \/ UnclassifiedQualifying(n)
                  \/ UnclassifiedRace(n)
             \/ ClassifiedGrid
       \/ /\ LoadedExtractor
          /\ DominanceSession
       \/ FreshExtractor

NextStandings ==
    \/ CallGetDriverStandings
    \/ CallTransformSessionResults
    \/ CallTransformPodium
    \/ CallTransformTrackDominance
    \/ CallTransformLapChartData

SpecStandings == InitStandings /\ [][NextStandings]_vars

(* ------------------------------ properties ----------------------------- *)
\* positions of process_session after the seven transforms
AfterTransforms == { "ps_backup", "ps_filter", "ps_upload", "ps_finish" }

\* process_session has returned True and run() has not yet moved on
ReturnedOk == pc = "ps_return" /\ handled = "ok"

\* the data types for which upload_session made an upload_data call
Uploaded == { d \in DataTypes : upload_results[d] # "none" }

\* C1: once load_session() succeeded, a transform that raises leaves its
\* data type's empty sentinel in the document map and the transforms after
\* it are still invoked: while the transforms run the map has exactly the
\* keys of the transforms invoked so far, after them all seven transforms
\* were invoked and all seven keys are present, and every data type whose
\* transform raised holds its sentinel.
C1_TransformFailuresIsolated ==
    /\ pc = "ps_transform" =>
         Keys(all_data) = { TransformOrder[i] : i \in 1..(tIdx - 1) }
    /\ (pc \in AfterTransforms \/ ReturnedOk) =>
         /\ tIdx = Len(TransformOrder) + 1
         /\ Keys(all_data) = DataTypes
    /\ \A d \in raised : all_data[d] = Sentinel(d)

\* the first transform raised, the six after it ran and the map is complete
C1_Witness ==
    /\ pc = "ps_backup"
    /\ raised = { "session_results" }
    /\ all_data["session_results"] = Sentinel("session_results")
    /\ Keys(all_data) = DataTypes

\* C2: when the track-dominance transform raised, the six other data types
\* are still uploaded (each that has a non-empty payload), track_dominance
\* holds its sentinel and no upsert is issued for the track_dominance key.
C2_TrackDominanceExcluded ==
    (ReturnedOk /\ "track_dominance" \in raised) =>
        /\ all_data["track_dominance"] = Sentinel("track_dominance")
        /\ "track_dominance" \notin Uploaded
        /\ \A d \in DataTypes \ {"track_dominance"} :
             (all_data[d] \notin { PyNone, EmptyList, EmptyDict }) => d \in Uploaded

\* C3: when a data type's transform failed, the record stored under its
\* composite key is the same after the process_session call as before it.
C3_FailedTransformKeepsRecord ==
    ReturnedOk =>
        \A d \in raised : store[CurKey(d)] = storeBefore[CurKey(d)]

\* the data types whose output is neither null, nor an empty list, nor an
\* empty mapping
NonEmptyOutputs ==
    { d \in DataTypes : all_data[d] \notin { Missing, PyNone, EmptyList, EmptyDict } }

\* C4: the data types handed to upload_session are exactly those whose
\* output is neither null, nor an empty list, nor an empty mapping, and
\* upload_session is called only when there is at least one.
C4_UploadsExactlyNonEmpty ==
    /\ pc \in { "ps_upload", "ps_finish" } =>
         /\ { filtered_data[i] : i \in 1..Len(filtered_data) } = NonEmptyOutputs
         /\ upload_called <=> (NonEmptyOutputs # {})
    /\ (pc = "ps_finish" \/ ReturnedOk) =>
         Uploaded = (IF upload_called THEN NonEmptyOutputs ELSE {})

\* a null, an empty list and an empty mapping were all filtered out
C4_Witness ==
    /\ pc = "ps_finish"
    /\ all_data["fastest_lap"] = PyNone
    /\ all_data["tyres"] = EmptyList
    /\ all_data["get_session_data"] = EmptyDict
    /\ Uploaded = DataTypes \ { "fastest_lap", "tyres", "get_session_data" }

\* C5: when every load attempt failed, load_session() returns False, and
\* process_session returns False with skipped_sessions and total_sessions
\* one higher than at its entry, failed_sessions and successful_sessions as
\* at its entry, and no transform, backup write or upload made; a session
\* is transformed only after a load attempt succeeded.
C5_FailedLoadSkipsSession ==
    /\ (pc = "ps_load" /\ lpc = "returned" /\ ~ loaded) =>
         /\ load_result = "False"
         /\ attempts_made = DefaultMaxRetries
    /\ (pc \in { "ps_transform" } \cup AfterTransforms \/ ReturnedOk) => loaded
    /\ (pc = "ps_return" /\ handled = "skipped") =>
         /\ ~ loaded
         /\ ret = "False"
         /\ stats.skipped_sessions = statsBefore.skipped_sessions + 1
         /\ stats.total_sessions = statsBefore.total_sessions + 1
         /\ stats.failed_sessions = statsBefore.failed_sessions
         /\ stats.successful_sessions = statsBefore.successful_sessions
         /\ stats.total_data_types = statsBefore.total_data_types
         /\ all_data = NoDocuments
         /\ ~ backup.attempted
         /\ ~ upload_called
         /\ Uploaded = {}
         /\ store = storeBefore

\* a session was skipped after a session that was processed
C5_Witness ==
    /\ pc = "ps_return"
    /\ handled = "skipped"
    /\ statsBefore.successful_sessions = 1

\* C6: load_session makes at most max_retries attempts, sleeps only between
\* two attempts, returns True at the first attempt that succeeds and
\* returns False exactly when all max_retries attempts raised.
C6_LoadSessionRetries ==
    /\ lpc # "idle" => attempts_made <= max_retries
    /\ lpc = "sleep" => attempts_made < max_retries
    /\ lpc = "returned" =>
         /\ sleeps = (IF attempts_made = 0 THEN 0 ELSE attempts_made - 1)
         /\ load_result = "True" => session # None
         /\ (load_result = "False") <=>
                (attempts_made = max_retries /\ load_result # "True")

\* C7: once load_session() has returned False on an extractor, every later
\* accessor call on it fails with the 'Session not loaded' error.
C7_FailedIsTerminal ==
    (acc.op # "none" /\ acc.after_failed) =>
        acc.outcome = "ValueError: Session not loaded"

\* C8: the session handle is None as long as no load_session() call has
\* succeeded, and after one succeeded the handle is never replaced.
C8_HandleSetOnce ==
    IF first_loaded = None THEN session = None ELSE session = first_loaded

\* C9: get_results() and get_laps() on an extractor on which load_session()
\* was never called fail with the state error and return no data.
C9_AccessorBeforeLoad ==
    (acc.op \in { "get_results", "get_laps" } /\ acc.loads_before = 0) =>
        acc.outcome = "ValueError: Session not loaded"

\* get_laps() was called on a new extractor
C9_Witness ==
    /\ acc.op = "get_laps"
    /\ acc.loads_before = 0
    /\ load_calls = 0

\* an error was raised at a place the claim names and process_session has
\* returned: in a constructor, the filter or the counter updates, in the
\* backup write, or in an upsert
RaisedInCall ==
    /\ pc = "ps_return"
    /\ \/ handled = "except"
       \/ (backup.attempted /\ ~ backup.written)
       \/ \E d \in DataTypes : upload_results[d] = "False"

\* C10 as stated: any exception raised inside process_session (extractor
\* construction, backup, filtering, upload) is caught, counted once in
\* failed_sessions, and process_session returns False.
C10_AnyExceptionCounted ==
    RaisedInCall =>
        /\ ret = "False"
        /\ stats.failed_sessions = statsBefore.failed_sessions + 1

\* C10 amended: an exception that reaches process_session's own handler is
\* counted once in failed_sessions and process_session returns False; an
\* error in the backup write or in an upsert is absorbed where it happens
\* and the session still counts as successful; run() ends only when its
\* loops are through or on a keyboard interrupt.
C10_EscapingExceptionCounted ==
    /\ (pc = "ps_return" /\ handled = "except") =>
         /\ ret = "False"
         /\ stats.failed_sessions = statsBefore.failed_sessions + 1
         /\ stats.total_sessions = statsBefore.total_sessions + 1
         /\ stats.successful_sessions = statsBefore.successful_sessions
         /\ stats.skipped_sessions = statsBefore.skipped_sessions
    /\ (RaisedInCall /\ handled # "except") =>
         /\ handled = "ok"
         /\ ret = "True"
         /\ stats.failed_sessions = statsBefore.failed_sessions
         /\ stats.successful_sessions = statsBefore.successful_sessions + 1
    /\ pc = "propagated" => interrupted_at = "run_year"
    /\ (pc = "done" /\ interrupted_at = "") => yearIdx > Len(years)

\* after a session that ended in the handler, run() is processing the next
C10_Witness ==
    /\ pc = "ps_transform"
    /\ stats.failed_sessions = 1
    /\ stats.total_sessions = 2

\* C11: a keyboard interrupt arriving at any point of run() stops the
\* iteration, has the statistics printed and makes run() return normally
\* instead of propagating; no session is processed afterwards.
C11_InterruptStopsCleanly ==
    interrupted_at # "" =>
        /\ pc = "done"
        /\ printed

\* C12: within one session the steps occur in the order load, seven
\* transforms, backup write, upload: the first transform starts only when
\* load_session() has returned True, the backup is written only after the
\* seven transforms, an upsert is made only after the backup write was
\* attempted and only on the keys of the session being processed; and
\* process_session is entered for the next combination only from run()'s
\* loop, when nothing of a call is in progress.
C12_StepsInOrder ==
    /\ [](pc = "ps_transform" => (loaded /\ load_calls = 1))
    /\ [](backup.attempted => tIdx = Len(TransformOrder) + 1)
    /\ []((pc = "ps_upload" \/ Uploaded # {}) => backup.attempted)
    /\ [][ /\ (pc' = "ps_transform" /\ pc # "ps_transform") =>
                (pc = "ps_load" /\ lpc = "returned" /\ load_result = "True")
           /\ (store' # store) =>
                /\ pc = "ps_upload"
                /\ backup.attempted
                /\ \A k \in StoreKeys :
                     store'[k] # store[k] => k = CurKey(k[4])
           /\ (pc' = "ps_entry") =>
                /\ pc = "run_gp"
                /\ all_data = NoDocuments
                /\ ~ backup.attempted
                /\ Uploaded = {}
                /\ lpc = "idle" ]_vars

\* the second session of a run is uploading, after the first was finished
C12_Witness ==
    /\ pc = "ps_upload"
    /\ store # storeBefore
    /\ stats.total_sessions = 2
    /\ stats.successful_sessions = 1

\* C13: for every session whose load succeeded, the document map passed to
\* the backup writer has all seven keys, with the sentinel for each failed
\* transform; every (data type, payload) pair handed to the uploader is in
\* that map, and so is every payload upserted; a backup file that could not
\* be written neither prevents the upload nor marks the session as failed.
C13_BackupIsSupersetOfUploads ==
    /\ backup.attempted =>
         /\ Keys(backup.passed) = DataTypes
         /\ \A d \in raised : backup.passed[d] = Sentinel(d)
         /\ backup.written => backup.data = backup.passed
    /\ (pc \in { "ps_upload", "ps_finish", "ps_return" }) =>
         \A d \in Uploaded :
            /\ backup.attempted
            /\ backup.passed[d] # Missing
            /\ backup.passed[d] = all_data[d]
            /\ upload_results[d] = "True" => store[CurKey(d)] = backup.passed[d]
    /\ (pc = "ps_finish" /\ ~ backup.written) =>
         /\ upload_called
         /\ Uploaded = { filtered_data[i] : i \in 1..Len(filtered_data) }
    /\ (pc = "ps_return" /\ backup.attempted /\ ~ backup.written
            /\ handled # "except") =>
         /\ handled = "ok"
         /\ ret = "True"
         /\ stats.failed_sessions = statsBefore.failed_sessions
         /\ stats.successful_sessions = statsBefore.successful_sessions + 1

\* the backup file could not be written and the session was uploaded and
\* counted as successful
C13_Witness ==
    /\ ReturnedOk
    /\ backup.attempted
    /\ ~ backup.written
    /\ Cardinality(Uploaded) = Cardinality(DataTypes)
    /\ \A d \in DataTypes : store[CurKey(d)] = backup.passed[d]

\* the data types whose upload reported failure in this call
FailedUploads == { d \in DataTypes : upload_results[d] = "False" }

\* C15: within one process_session call each non-empty data type is handed
\* to the uploader exactly once: the upload calls made so far are for
\* pairwise different data types, in the order of the filtered map; after
\* the loop every filtered data type was attempted, whether an earlier
\* upload failed or not; failed_data_types grows by the number of uploads
\* that reported failure and total_data_types by the number attempted.
C15_UploadFailuresCountedNotRetried ==
    /\ pc = "ps_upload" =>
         /\ Uploaded = { filtered_data[i] : i \in 1..(uploadIdx - 1) }
         /\ Cardinality(Uploaded) = uploadIdx - 1
         /\ stats.total_data_types = statsBefore.total_data_types
    /\ pc = "ps_finish" =>
         /\ uploadIdx = Len(filtered_data) + 1
         /\ Cardinality(Uploaded) = Len(filtered_data)
         /\ Uploaded = NonEmptyOutputs
    /\ ReturnedOk =>
         /\ stats.failed_data_types =
              statsBefore.failed_data_types + Cardinality(FailedUploads)
         /\ stats.total_data_types =
              statsBefore.total_data_types + Cardinality(Uploaded)
         /\ \A d \in FailedUploads : store[CurKey(d)] = storeBefore[CurKey(d)]

\* the first upload failed and the uploads after it were made and accepted
C15_Witness ==
    /\ ReturnedOk
    /\ FailedUploads = { "session_results" }
    /\ Uploaded = DataTypes
    /\ stats.failed_data_types = statsBefore.failed_data_types + 1
    /\ stats.total_data_types = statsBefore.total_data_types + 7

\* the second of two calls on the same combination has returned
SecondReturned == pc = "ps_return" /\ prev.calls = 1

SomeUpstreamPosition ==
    \E i \in 1..Len(session_results) : session_results[i].Position # NaN

\* a table is in Position order: ascending, the rows without a Position last
InPositionOrder(rows) ==
    \A a, b \in 1..Len(rows) :
        a < b =>
            /\ rows[a].Position = NaN => rows[b].Position = NaN
            /\ (rows[a].Position # NaN /\ rows[b].Position # NaN) =>
                   rows[a].Position <= rows[b].Position

\* C16: when at least one upstream result row has a Position,
\* get_driver_standings() returns exactly the upstream rows, no field of a
\* row changed, in ascending order of Position, the rows without a
\* Position after all rows with one.
C16_StandingsSortedUnmodified ==
    (called = "get_driver_standings" /\ SomeUpstreamPosition) =>
        /\ Len(standings) = Len(session_results)
        /\ \A i \in 1..Len(session_results) :
             \E k \in 1..Len(standings) : standings[k] = session_results[i]
        /\ InPositionOrder(standings)

\* three rows, the first without a Position and the others out of order:
\* the row without a Position is returned last
C16_Witness ==
    /\ called = "get_driver_standings"
    /\ Len(session_results) = 3
    /\ session_results[1].Position = NaN
    /\ session_results[2].Position = 3
    /\ session_results[3].Position = 1
    /\ standings[1] = session_results[3]
    /\ standings[2] = session_results[2]
    /\ standings[3] = session_results[1]

\* the rows of the upstream results whose driver has a lap with a time
DriversWithValidLap ==
    { i \in 1..Len(session_results) :
        \E l \in session_laps : l.Driver = session_results[i].Abbreviation
                                 /\ l.LapTime # NaN }

\* the smallest lap time of the driver of upstream row i
FastestLapOf(i) ==
    CHOOSE t \in { l.LapTime : l \in { x \in session_laps :
                        x.Driver = session_results[i].Abbreviation /\ x.LapTime # NaN } } :
        \A l \in session_laps :
            (l.Driver = session_results[i].Abbreviation /\ l.LapTime # NaN) => t <= l.LapTime

\* C17: in a practice or qualifying session in which every upstream
\* Position is null and the n drivers with a valid lap have pairwise
\* distinct fastest lap times, get_driver_standings() gives those drivers
\* the positions 1..n, each once, in ascending order of the driver's
\* smallest lap time, and stores that lap time in the row's Time.
C17_QualifyingRankedByFastestLap ==
    (/\ called = "get_driver_standings"
     /\ session_type \notin RaceTypes
     /\ ~ SomeUpstreamPosition
     /\ \A i, j \in DriversWithValidLap : i # j => FastestLapOf(i) # FastestLapOf(j)) =>
        /\ Len(standings) = Len(session_results)
        /\ \A i \in DriversWithValidLap :
             \E k \in 1..Len(standings) :
                /\ standings[k].Abbreviation = session_results[i].Abbreviation
                /\ standings[k].Time = FastestLapOf(i)
                /\ standings[k].Position =
                     1 + Cardinality({ j \in DriversWithValidLap :
                                         FastestLapOf(j) < FastestLapOf(i) })
        /\ { standings[k].Position : k \in 1..Cardinality(DriversWithValidLap) }
             = 1..Cardinality(DriversWithValidLap)
        /\ \A k \in 1..Cardinality(DriversWithValidLap) : standings[k].Position = k

\* a qualifying of three drivers, two of them with a valid lap: the third
\* row was faster and is first, the first row is second, the row without
\* a lap keeps no Position
C17_Witness ==
    /\ called = "get_driver_standings"
    /\ session_type = "Qualifying"
    /\ Len(session_results) = 3
    /\ ~ SomeUpstreamPosition
    /\ DriversWithValidLap = { 1, 3 }
    /\ FastestLapOf(1) = 3
    /\ FastestLapOf(3) = 1
    /\ standings[1].Abbreviation = 3
    /\ standings[1].Time = 1
    /\ standings[2].Abbreviation = 1
    /\ standings[2].Time = 3
    /\ standings[3].Position = NaN

\* C18: in the lap-derived fallback (no upstream Position at all) a driver
\* has a Position only if it comes from the driver's own lap data: a
\* driver with no valid lap keeps a null Position and no driver is given a
\* made-up value such as 999.
C18_NoFabricatedPosition ==
    (called = "get_driver_standings" /\ ~ SomeUpstreamPosition) =>
        \A k \in 1..Len(standings) :
            standings[k].Position # NaN =>
                /\ standings[k].Position # PositionSentinel
                /\ \E l \in session_laps :
                      /\ l.Driver = standings[k].Abbreviation
                      /\ l.LapTime # NaN
                      /\ session_type \in RaceTypes => l.Position = standings[k].Position

\* the keys of an entry of the session results
SessionResultsKeys ==
    { "Position", "Abbreviation", "TeamName", "TeamLogo", "TeamColor", "Status",
      "Time", "DriverNumber", "Points" }

\* C19: transform_session_results() returns one entry per standing row,
\* each with all nine keys; a missing Position is rendered as 999 and a
\* missing Points as 0; the list is in ascending order of Position, every
\* entry with 999 after every entry with a real position.
C19_SessionResultsComplete ==
    called = "transform_session_results" =>
        /\ Len(output) = Len(standings)
        /\ \A k \in 1..Len(output) : DOMAIN output[k] = SessionResultsKeys
        /\ \A i \in 1..Len(standings) :
             \E k \in 1..Len(output) :
                /\ output[k].Abbreviation = ToString(standings[i].Abbreviation)
                /\ output[k].Position =
                     (IF standings[i].Position = NaN THEN PositionSentinel
                      ELSE standings[i].Position)
                /\ output[k].Points =
                     (IF standings[i].Points = NaN THEN DefaultPoints
                      ELSE standings[i].Points)
        /\ \A a, b \in 1..Len(output) :
             a < b =>
                /\ output[a].Position <= output[b].Position
                /\ output[a].Position = PositionSentinel =>
                       output[b].Position = PositionSentinel

\* three entries: a row without Position is the last, with 999, and a row
\* with a Position and without Points has 0 points
C19_Witness ==
    /\ called = "transform_session_results"
    /\ Len(output) = 3
    /\ output[1].Position = 1
    /\ output[2].Position # PositionSentinel
    /\ output[3].Position = PositionSentinel
    /\ \E k \in 1..2 : standings[k].Points = NaN /\ output[k].Points = DefaultPoints
    /\ \E k \in 1..2 : output[k].Points > 0

\* C20: transform_podium() returns at most 3 entries, in standings order,
\* none with a null Position and none with the position 999, for every
\* upstream data set, those of the lap-derived fallback included.
C20_PodiumResolvable ==
    called = "transform_podium" =>
        /\ Len(output) <= PodiumSize
        /\ \A a, b \in 1..Len(output) :
             a < b =>
                \E i, j \in 1..Len(standings) :
                    /\ i < j
                    /\ ToString(standings[i].Abbreviation) = output[a].Abbreviation
                    /\ ToString(standings[j].Abbreviation) = output[b].Abbreviation
        /\ \A k \in 1..Len(output) :
             /\ output[k].Position # NaN
             /\ output[k].Position # PositionSentinel

\* C30: load_session() returns a boolean, never a missing value, for every
\* max_retries >= 0, and with max_retries = 0 it makes no load attempt,
\* leaves a null session handle null and returns False.
C30_LoadSessionReturnsBool ==
    lpc = "returned" =>
        /\ load_result \in { "True", "False" }
        /\ max_retries = 0 =>
              /\ attempts_made = 0
              /\ (load_calls = 1 => session = None)
              /\ load_result = "False"

\* the sessions counted as successful, skipped or failed
SessionsAccounted(st) ==
    st.successful_sessions + st.skipped_sessions + st.failed_sessions

\* C28: whenever the statistics are read between two process_session calls
\* or printed, at the normal end of run() or after a keyboard interrupt,
\* total_sessions = successful_sessions + skipped_sessions +
\* failed_sessions; a process_session call adds 1 to total_sessions and 1
\* to exactly one of the three other counters.
C28_SessionCountersBalance ==
    /\ (pc \in { "run_year", "run_gp", "ps_entry" } \/ printed) =>
           stats.total_sessions = SessionsAccounted(stats)
    /\ pc = "ps_return" =>
           /\ stats.total_sessions = statsBefore.total_sessions + 1
           /\ SessionsAccounted(stats) = SessionsAccounted(statsBefore) + 1
           /\ stats.successful_sessions >= statsBefore.successful_sessions
           /\ stats.skipped_sessions >= statsBefore.skipped_sessions
           /\ stats.failed_sessions >= statsBefore.failed_sessions

\* C29: after any sequence of process_session calls that returned,
\* 0 <= failed_data_types <= total_data_types <= 7 * successful_sessions;
\* a call that skipped the session or ended in the except clause, after
\* its uploads included, leaves the data-type counters alone, and a call
\* that reached the end of the try block counts the session successful
\* whatever upload_session returned.
C29_DataTypeCountersBounded ==
    /\ pc \in { "run_year", "run_gp", "ps_entry", "ps_return" } =>
           /\ 0 <= stats.failed_data_types
           /\ stats.failed_data_types <= stats.total_data_types
           /\ stats.total_data_types <= Len(TransformOrder) * stats.successful_sessions
    /\ (pc = "ps_return" /\ handled \in { "skipped", "except" }) =>
           /\ stats.total_data_types = statsBefore.total_data_types
           /\ stats.failed_data_types = statsBefore.failed_data_types
           /\ stats.successful_sessions = statsBefore.successful_sessions
    /\ (pc = "ps_return" /\ handled = "ok") =>
           /\ stats.successful_sessions = statsBefore.successful_sessions + 1
           /\ stats.total_data_types - statsBefore.total_data_types
                = Cardinality({ d \in DataTypes : upload_results[d] # "none" })
           /\ stats.failed_data_types - statsBefore.failed_data_types
                = Cardinality({ d \in DataTypes : upload_results[d] = "False" })

\* second session of a run: the first was counted successful with its
\* data types, this one raised after all its uploads and is counted failed
\* without a data type
C29_Witness ==
    /\ pc = "ps_return"
    /\ handled = "except"
    /\ upload_called
    /\ \A i \in 1..Len(filtered_data) : upload_results[filtered_data[i]] = "True"
    /\ Len(filtered_data) > 1
    /\ stats.failed_sessions = 1
    /\ stats.successful_sessions = 1
    /\ stats.total_data_types = statsBefore.total_data_types
    /\ stats.total_data_types > 0

\* the laps with the session's maximum LapNumber that record a position
RecordedFinalLaps ==
    { l \in session_laps :
        /\ laps_position
        /\ \A x \in session_laps : x.LapNumber <= l.LapNumber }

\* C26: in a Race or Sprint without any upstream Position,
\* get_driver_standings() gives each driver with a lap whose LapNumber is
\* the session's maximum the position recorded for the driver on that lap,
\* and returns the rows in ascending order of the positions so assigned.
C26_RaceRankedByFinalLap ==
    (/\ called = "get_driver_standings"
     /\ session_type \in RaceTypes
     /\ ~ SomeUpstreamPosition
     /\ session_laps # {}) =>
        /\ Len(standings) = Len(session_results)
        /\ \A i \in 1..Len(session_results) : \A l \in RecordedFinalLaps :
             l.Driver = session_results[i].Abbreviation =>
                \E k \in 1..Len(standings) :
                    /\ standings[k].Abbreviation = l.Driver
                    /\ standings[k].Position = l.Position
        /\ InPositionOrder(standings)

\* a sprint of three drivers whose lap table records positions: the first
\* and the third row reached the final lap and are returned in the order
\* of their positions on it, the second row did not and comes last
C26_Witness ==
    /\ called = "get_driver_standings"
    /\ session_type = "Sprint"
    /\ Len(session_results) = 3
    /\ ~ SomeUpstreamPosition
    /\ { l.Driver : l \in RecordedFinalLaps } = { 1, 3 }
    /\ \E l \in session_laps : l.Driver = 2
    /\ \E l \in RecordedFinalLaps : l.Driver = 3 /\ l.Position = 1
    /\ \E l \in RecordedFinalLaps : l.Driver = 1 /\ l.Position = 3
    /\ standings[1].Abbreviation = 3
    /\ standings[1].Position = 1
    /\ standings[2].Abbreviation = 1
    /\ standings[2].Position = 3
    /\ standings[3].Position = NaN

\* transform_track_dominance compared two laps: it was called on a loaded
\* session with two standing rows whose drivers have a timed lap with
\* telemetry, and the merged telemetry covers some distance
ComparedLaps ==
    /\ called = "transform_track_dominance"
    /\ session # None
    /\ Len(standings) >= DominanceSize
    /\ \A k \in 1..DominanceSize :
         /\ HasFastestLap(LapsOfNumber(session_laps, session_results,
                                       standings[k].DriverNumber))
         /\ telemetry[standings[k].Abbreviation].available
         /\ telemetry[standings[k].Abbreviation].points # {}
    /\ \E k \in 1..DominanceSize :
         \E p \in telemetry[standings[k].Abbreviation].points : p.Distance > 0

\* the telemetry points of the two compared laps, each with its driver
ComparedTelemetry ==
    UNION { Tagged(telemetry[standings[k].Abbreviation].points,
                   standings[k].Abbreviation) : k \in 1..DominanceSize }

\* C27: transform_track_dominance() partitions the lap into exactly 25
\* minisectors: every telemetry point of the two compared laps, the point
\* at the maximum distance included, gets a minisector index in 0..24, and
\* at most 25 distinct indices are compared.
C27_TwentyFiveMinisectors ==
    ComparedLaps =>
        /\ \A p \in ComparedTelemetry :
             Minisector(p.Distance, TotalDistance(ComparedTelemetry))
                \in 0..(NumMinisectors - 1)
        /\ Cardinality({ Minisector(p.Distance, TotalDistance(ComparedTelemetry)) :
                           p \in ComparedTelemetry }) <= NumMinisectors

\* the index of a point in a partition of the lap into NumMinisectors
\* minisectors of equal length, the last of them closed at the lap's end
EqualPartition(distance, total) ==
    IF Minisector(distance, total) >= NumMinisectors THEN NumMinisectors - 1
    ELSE Minisector(distance, total)

\* the points of a driver in the minisectors lo..hi of the equal partition
PartitionPoints(tel, driver, lo, hi) ==
    { p \in tel : /\ p.Driver = driver
                  /\ EqualPartition(p.Distance, TotalDistance(tel)) \in lo..hi }

\* driver a has the higher mean speed than driver b in each of the
\* minisectors lo..hi, by the equal partition and by the indices of the code
DominatesIn(tel, a, b, lo, hi) ==
    \A m \in lo..hi :
        /\ PartitionPoints(tel, a, m, m) # {}
        /\ PartitionPoints(tel, b, m, m) # {}
        /\ MeanAbove(PartitionPoints(tel, a, m, m), PartitionPoints(tel, b, m, m))
        /\ PointsIn(tel, TotalDistance(tel), m, a) # {}
        /\ PointsIn(tel, TotalDistance(tel), m, b) # {}
        /\ MeanAbove(PointsIn(tel, TotalDistance(tel), m, a),
                     PointsIn(tel, TotalDistance(tel), m, b))

\* the minisector where the second half of the lap starts: minisector 13
SecondHalf == (NumMinisectors + 1) \div 2

\* C21: when one of the two compared drivers has the higher mean speed in
\* minisectors 0-12 and the other in minisectors 13-24,
\* transform_track_dominance() emits exactly 2 segments, the first of the
\* driver of 0-12 and the second of the driver of 13-24, and their points
\* are that driver's points of those minisectors in the order of the
\* distance, up to the end of the lap.
C21_TwoSegmentsForTwoHalves ==
    ComparedLaps =>
        \A a, b \in { standings[k].Abbreviation : k \in 1..DominanceSize } :
            ( /\ a # b
              /\ DominatesIn(ComparedTelemetry, a, b, 0, SecondHalf - 1)
              /\ DominatesIn(ComparedTelemetry, b, a, SecondHalf, NumMinisectors - 1) )
            => /\ Len(document.segments) = 2
               /\ document.segments[1] =
                    Segment(a, PointsByDistance(
                                 PartitionPoints(ComparedTelemetry, a, 0, SecondHalf - 1)))
               /\ document.segments[2] =
                    Segment(b, PointsByDistance(
                                 PartitionPoints(ComparedTelemetry, b, SecondHalf,
                                                 NumMinisectors - 1)))

\* the standings, the laps or the telemetry give no segment geometry
GeometryUnavailable ==
    \/ session = None
    \/ Len(standings) < DominanceSize
    \/ \E k \in 1..DominanceSize :
         \/ ~ HasFastestLap(LapsOfNumber(session_laps, session_results,
                                         standings[k].DriverNumber))
         \/ ~ telemetry[standings[k].Abbreviation].available

\* C22: transform_track_dominance() never raises: every call returns a
\* document with drivers, teamColors and segments, and when the segment
\* geometry is unavailable (session not loaded, fewer than two drivers, a
\* driver without a timed lap or without telemetry) the segments are empty
\* and two compared drivers are still named with their colours.
C22_DominanceDegradesGracefully ==
    called = "transform_track_dominance" =>
        /\ document # Raised
        /\ DOMAIN document = { "drivers", "teamColors", "segments" }
        /\ GeometryUnavailable =>
             /\ document.segments = << >>
             /\ Len(standings) >= DominanceSize =>
                  /\ document.drivers =
                       [ k \in 1..DominanceSize |-> ToString(standings[k].Abbreviation) ]
                  /\ Len(document.teamColors) = DominanceSize

\* the hexadecimal digits of a colour
HexDigits ==
    { "0", "1", "2", "3", "4", "5", "6", "7", "8", "9",
      "A", "B", "C", "D", "E", "F", "a", "b", "c", "d", "e", "f" }

\* a colour string of the form #RRGGBB
IsHashColor(color) ==
    /\ Len(color) = 7
    /\ color[1] = "#"
    /\ \A k \in 2..7 : color[k] \in HexDigits

\* the team colours a call emitted
EmittedColors ==
    IF called \in { "transform_session_results", "transform_podium" }
    THEN { output[k].TeamColor : k \in 1..Len(output) }
    ELSE IF called = "transform_track_dominance" /\ document # Raised
         THEN { document.teamColors[k] : k \in 1..Len(document.teamColors) }
         ELSE {}

\* the colour emitted for the standings row of a driver
EmittedColorOf(row) ==
    IF called \in { "transform_session_results", "transform_podium" }
    THEN { output[k].TeamColor :
             k \in { j \in 1..Len(output) :
                       output[j].Abbreviation = ToString(row.Abbreviation) } }
    ELSE IF called = "transform_track_dominance" /\ document # Raised
         THEN { document.teamColors[k] :
                  k \in { j \in 1..Len(document.teamColors) :
                            document.drivers[j] = ToString(row.Abbreviation) } }
         ELSE {}

\* C24: every team colour in an output document (TeamColor of session
\* results and podium, teamColors of track dominance) is '#' followed by
\* six hexadecimal digits, and a colour that is absent or null upstream is
\* emitted as the gray '#CCCCCC'.
C24_TeamColorsAreHashRRGGBB ==
    /\ \A color \in EmittedColors : IsHashColor(color)
    /\ \A k \in 1..Len(standings) :
         ("TeamColor" \notin DOMAIN standings[k] \/ standings[k].TeamColor = NullText)
            => \A color \in EmittedColorOf(standings[k]) : color = << "#" >> \o Gray

\* a lap chart call on a loaded session returned
LapChartReturned ==
    /\ called = "transform_lap_chart_data"
    /\ document # Raised

\* the lap time in text a reader expects: minutes, ':', seconds in two
\* digits, '.', milliseconds in three digits
ExpectedLapTime(ms) ==
    LET m == ms \div 60000
        s == (ms - m * 60000) \div 1000
        k == ms - m * 60000 - s * 1000
    IN  ToString(m) \o ":"
          \o (IF s < 10 THEN "0" ELSE "") \o ToString(s) \o "."
          \o (IF k < 100 THEN "0" ELSE "") \o (IF k < 10 THEN "0" ELSE "") \o ToString(k)

\* C25: transform_lap_chart_data() has an entry for exactly the laps whose
\* lap time is not null, and the lap time of an entry reads m:ss.kkk, the
\* seconds in two digits and the milliseconds in three: 90.456 s is
\* '1:30.456' and 5.004 s is '0:05.004'.
C25_LapChartFormatsTimedLaps ==
    LapChartReturned =>
        /\ \A l \in session_laps :
             l.LapTime # NaN <=>
                \E e \in document.laps :
                    /\ e.driver = ToString(l.Driver)
                    /\ e.lapNumber = l.LapNumber
        /\ \A e \in document.laps :
             \E l \in session_laps :
                /\ l.LapTime # NaN
                /\ e.driver = ToString(l.Driver)
                /\ e.lapNumber = l.LapNumber
                /\ e.lapTime = ExpectedLapTime(l.LapTime)
        /\ \A l \in session_laps :
             /\ l.LapTime = 90456 =>
                  \E e \in document.laps : e.lapNumber = l.LapNumber /\ e.lapTime = "1:30.456"
             /\ l.LapTime = 5004 =>
                  \E e \in document.laps : e.lapNumber = l.LapNumber /\ e.lapTime = "0:05.004"

\* a lap chart with 90.456 s and 5.004 s laps and a lap without a time
C25_Witness ==
    /\ LapChartReturned
    /\ \E l \in session_laps : l.LapTime = 90456
    /\ \E l \in session_laps : l.LapTime = 5004
    /\ \E l \in session_laps : l.LapTime = NaN
    /\ \E e \in document.laps : e.lapTime = "1:30.456"
    /\ \E e \in document.laps : e.lapTime = "0:05.004"

\* the calls of the transformer
TransformCalls ==
    { "transform_session_results", "transform_podium",
      "transform_track_dominance", "transform_lap_chart_data" }

\* C23: no transform changes the state of the extractor: over every
\* transform call the session handle, the loaded flag, the session type,
\* the results table and the lap table of the session, and the telemetry
\* of its laps stay as they were; the Positions and Times the standings
\* fallback derives are in the returned copy only.
C23_TransformsLeaveExtractorUnchanged ==
    [][ called' \in TransformCalls =>
          /\ session' = session
          /\ loaded' = loaded
          /\ session_type' = session_type
          /\ session_results' = session_results
          /\ session_laps' = session_laps
          /\ laps_position' = laps_position
          /\ telemetry' = telemetry ]_vars

\* a transform ran the standings fallback: the standings it worked on have
\* a derived Position and Time, the session's results table has neither
C23_Witness ==
    /\ called \in TransformCalls
    /\ session # None
    /\ Len(session_results) >= 2
    /\ ~ SomeUpstreamPosition
    /\ \A i \in 1..Len(session_results) : session_results[i].Time = NaN
    /\ standings[1].Position # NaN
    /\ standings[1].Time # NaN
====
